---- MODULE Spec2Model ----
(***************************************************************************)
(* A model of sktablelayout (src/src/lib.rs): the TableLayout program      *)
(* (opcode sequence, insertion cursor, default templates), its builders    *)
(* and the three-pass solver `impose`.                                     *)
(*                                                                         *)
(* Numbers.  The code computes in f32.  The model computes in exact        *)
(* rationals extended with the IEEE special values the code can produce:   *)
(* NaN, +/-infinity, and f32::MAX (the default maximum size).  Rounding of *)
(* finite results is not modelled; every magnitude of the order of         *)
(* f32::MAX (MAX plus a padding, MAX divided by a colspan) is the one      *)
(* value "max", which the code only ever compares against bounded values.  *)
(*                                                                         *)
(* Integers.  colspan, the cursor and the counters of get_rows_cols and    *)
(* impose are u8.  A u8 addition that overflows panics when the crate is   *)
(* built with overflow checks (the debug profile) and wraps modulo 256     *)
(* otherwise (the release profile); overflow_checks records the profile.   *)
(***************************************************************************)
EXTENDS Integers, Sequences, FiniteSets, TLC

\* ------------------------------------------------------------------ f32 --
\* A number is a record [k, n, d]: "fin" is the rational n/d (d >= 1, lowest
\* terms); "inf" and "max" carry their sign in n; "nan" is NaN.

RECURSIVE GCD(_, _)
GCD(a, b) == IF b = 0 THEN a ELSE GCD(b, a % b)

Abs(i) == IF i < 0 THEN -i ELSE i

Sign(i) == IF i < 0 THEN -1 ELSE IF i = 0 THEN 0 ELSE 1

Rat(n, d) ==
    LET s == IF d < 0 THEN -1 ELSE 1
        g == GCD(Abs(n), Abs(d))
    IN  [n |-> (s * n) \div g, d |-> (s * d) \div g, k |-> "fin"]

F(i) == [n |-> i, d |-> 1, k |-> "fin"]

NaN == [n |-> 0, d |-> 1, k |-> "nan"]

Inf(s) == [n |-> s, d |-> 1, k |-> "inf"]

MaxF(s) == [n |-> s, d |-> 1, k |-> "max"]

F32_MAX == MaxF(1)

IsFin(a) == a.k = "fin"

IsZero(a) == a.k = "fin" /\ a.n = 0

FNeg(a) == [a EXCEPT !.n = -a.n]

\* a + b
FAdd(a, b) ==
    CASE a.k = "nan" \/ b.k = "nan" -> NaN
      [] a.k = "fin" /\ b.k = "fin" -> Rat(a.n * b.d + b.n * a.d, a.d * b.d)
      [] a.k = "inf" /\ b.k = "inf" -> IF a.n = b.n THEN a ELSE NaN
      [] a.k = "inf" -> a
      [] b.k = "inf" -> b
      [] a.k = "max" /\ b.k = "max" -> IF a.n = b.n THEN Inf(a.n) ELSE F(0)
      [] a.k = "max" -> a
      [] OTHER -> b

\* a - b
FSub(a, b) == FAdd(a, FNeg(b))

\* a * b
FMul(a, b) ==
    CASE a.k = "nan" \/ b.k = "nan" -> NaN
      [] a.k = "fin" /\ b.k = "fin" -> Rat(a.n * b.n, a.d * b.d)
      [] IsZero(a) \/ IsZero(b) ->
            IF a.k = "inf" \/ b.k = "inf" THEN NaN ELSE F(0)
      [] a.k = "inf" \/ b.k = "inf" -> Inf(Sign(a.n) * Sign(b.n))
      [] a.k = "max" /\ b.k = "max" -> Inf(Sign(a.n) * Sign(b.n))
      [] OTHER -> MaxF(Sign(a.n) * Sign(b.n))

\* a / b (0.0 is the positive zero: the code never produces -0.0 as a divisor)
FDiv(a, b) ==
    CASE a.k = "nan" \/ b.k = "nan" -> NaN
      [] IsZero(b) -> IF IsZero(a) THEN NaN ELSE Inf(Sign(a.n))
      [] a.k = "fin" /\ b.k = "fin" -> Rat(a.n * b.d, a.d * b.n)
      [] a.k = "inf" -> IF b.k = "inf" THEN NaN ELSE Inf(Sign(a.n) * Sign(b.n))
      [] b.k = "inf" -> F(0)
      [] a.k = "max" -> IF b.k = "max" THEN F(Sign(a.n) * Sign(b.n))
                                        ELSE MaxF(Sign(a.n) * Sign(b.n))
      [] OTHER -> F(0)

\* The position of a non-NaN number among the classes
\* -inf < -max < finite < max < inf.
Rank(a) ==
    CASE a.k = "inf" -> 2 * a.n
      [] a.k = "max" -> a.n
      [] OTHER -> 0

\* a < b (false when either is NaN)
FLt(a, b) ==
    /\ a.k # "nan"
    /\ b.k # "nan"
    /\ \/ Rank(a) < Rank(b)
       \/ a.k = "fin" /\ b.k = "fin" /\ a.n * b.d < b.n * a.d

\* a > b
FGt(a, b) == FLt(b, a)

\* f32::max: the other operand when one is NaN
f32_max(a, b) ==
    CASE a.k = "nan" -> b
      [] b.k = "nan" -> a
      [] OTHER -> IF FLt(a, b) THEN b ELSE a

\* f32::min: the other operand when one is NaN
f32_min(a, b) ==
    CASE a.k = "nan" -> b
      [] b.k = "nan" -> a
      [] OTHER -> IF FLt(b, a) THEN b ELSE a

\* ------------------------------------------------------------------- u8 --
U8 == 256

\* a + b in u8: [panic |-> the addition overflowed and the build checks it,
\* v |-> the value stored otherwise]
u8_add(a, b, checks) ==
    [panic |-> checks /\ a + b >= U8, v |-> (a + b) % U8]

\* std::cmp::max
max(a, b) == IF a >= b THEN a ELSE b

\* ------------------------------------------------------- geometry types --
Rectangle(top, left, bottom, right) ==
    [top |-> top, left |-> left, bottom |-> bottom, right |-> right]

Rectangle_default == Rectangle(F(0), F(0), F(0), F(0))

Size(width, height) == [width |-> width, height |-> height]

join_max(a, b) ==
    Size(f32_max(a.width, b.width), f32_max(a.height, b.height))

join_min(a, b) ==
    Size(f32_min(a.width, b.width), f32_min(a.height, b.height))

Size_spread(self, divisions) ==
    Size(FDiv(self.width, divisions), FDiv(self.height, divisions))

Size_padded(self, padding) ==
    Size(FAdd(FAdd(self.width, padding.left), padding.right),
         FAdd(FAdd(self.height, padding.top), padding.bottom))

SizeGrouping(minimum, maximum, preferred) ==
    [minimum |-> minimum, maximum |-> maximum, preferred |-> preferred]

SizeGrouping_default ==
    SizeGrouping(Size(F(0), F(0)), Size(F32_MAX, F32_MAX), Size(F(0), F(0)))

join(a, b) ==
    SizeGrouping(join_max(a.minimum, b.minimum),
                 join_min(a.maximum, b.maximum),
                 join_max(a.preferred, b.preferred))

spread(self, divisions) ==
    SizeGrouping(Size_spread(self.minimum, divisions),
                 Size_spread(self.maximum, divisions),
                 Size_spread(self.preferred, divisions))

padded(self, padding) ==
    SizeGrouping(Size_padded(self.minimum, padding),
                 Size_padded(self.maximum, padding),
                 Size_padded(self.preferred, padding))

\* ---------------------------------------------------------------- flags --
CellFlags ==
    {"ExpandHorizontal", "ExpandVertical", "FillHorizontal", "FillVertical",
     "AnchorTop", "AnchorBottom", "AnchorLeft", "AnchorRight",
     "AnchorHorizontalCenter", "AnchorVerticalCenter", "Uniform"}

contains(flags, f) == f \in flags


\* ------------------------------------------------------ cell properties --
\* callback is TRUE for Some(closure) and FALSE for None; a closure's identity
\* is the position of its cell in the opcode sequence.
CellProperties(size, flags, colspan, padding, callback) ==
    [padding |-> padding, flags |-> flags, size |-> size,
     colspan |-> colspan, callback |-> callback]

CellProperties_default ==
    CellProperties(SizeGrouping_default, {}, 1, Rectangle_default, FALSE)

CellProperties_new == CellProperties_default

clone(self) ==
    CellProperties(self.size, self.flags, self.colspan, self.padding, FALSE)

minimum_size(self, minimum) == [self EXCEPT !.size.minimum = minimum]

maximum_size(self, maximum) == [self EXCEPT !.size.maximum = maximum]

preferred_size(self, preferred) == [self EXCEPT !.size.preferred = preferred]

\* expand, fill, anchor_*, uniform and their one-axis variants: flags |= fs
set_flags(self, fs) == [self EXCEPT !.flags = self.flags \cup fs]

colspan(self, span) == [self EXCEPT !.colspan = span]

callback(self) == [self EXCEPT !.callback = TRUE]

padding(self, pad) == [self EXCEPT !.padding = pad]

\* SizeGrouping::box_fit: <<x, y, w, h>>
box_fit_w(self, area, prop) ==
    LET pad_width == FAdd(prop.padding.left, prop.padding.right)
    IN  IF contains(prop.flags, "FillHorizontal")
        THEN f32_min(self.maximum.width, FSub(area.width, pad_width))
        ELSE f32_min(self.preferred.width, FSub(area.width, pad_width))

box_fit_h(self, area, prop) ==
    LET pad_height == FAdd(prop.padding.top, prop.padding.bottom)
    IN  IF contains(prop.flags, "FillVertical")
        THEN f32_min(self.maximum.height, FSub(area.height, pad_height))
        ELSE f32_min(self.preferred.height, FSub(area.height, pad_height))

box_fit_x(area, prop, w) ==
    IF contains(prop.flags, "AnchorRight")
    THEN FSub(FSub(area.width, prop.padding.right), w)
    ELSE IF contains(prop.flags, "AnchorHorizontalCenter")
    THEN FSub(FDiv(area.width, F(2)), FDiv(w, F(2)))
    ELSE prop.padding.left

box_fit_y(area, prop, h) ==
    IF contains(prop.flags, "AnchorBottom")
    THEN FSub(FSub(area.height, prop.padding.bottom), h)
    ELSE IF contains(prop.flags, "AnchorHorizontalCenter")
    THEN FSub(FDiv(area.height, F(2)), FDiv(h, F(2)))
    ELSE prop.padding.top

box_fit(self, area, prop) ==
    LET w == box_fit_w(self, area, prop)
        h == box_fit_h(self, area, prop)
    IN  <<box_fit_x(area, prop, w), box_fit_y(area, prop, h), w, h>>

\* ------------------------------------------------------------ the layout --
Cell(cp) == [op |-> "Cell", cp |-> cp]

Row == [op |-> "Row"]

\* A BTreeMap<u8, CellProperties> is a function from its keys.
BTreeMap_new == [key \in {} |-> CellProperties_default]

insert(map, key, value) ==
    [x \in DOMAIN map \cup {key} |-> IF x = key THEN value ELSE map[x]]

TableLayout(cell_defaults, row_defaults, column_defaults, opcodes, row, column) ==
    [cell_defaults |-> cell_defaults, row_defaults |-> row_defaults,
     column_defaults |-> column_defaults, opcodes |-> opcodes,
     row |-> row, column |-> column]

TableLayout_new ==
    TableLayout(CellProperties_default, BTreeMap_new, BTreeMap_new, <<>>, 0, 0)

\* with_defaults as it would be if the row's template were looked up first.
with_defaults_row_first(layout) ==
    IF layout.row \in DOMAIN layout.row_defaults
    THEN clone(layout.row_defaults[layout.row])
    ELSE IF layout.column \in DOMAIN layout.column_defaults
    THEN clone(layout.column_defaults[layout.column])
    ELSE clone(layout.cell_defaults)

with_defaults(layout) ==
    IF layout.column \in DOMAIN layout.column_defaults
    THEN clone(layout.column_defaults[layout.column])
    ELSE IF layout.row \in DOMAIN layout.row_defaults
    THEN clone(layout.row_defaults[layout.row])
    ELSE clone(layout.cell_defaults)

\* One iteration of the loop of get_rows_cols over st = [cols, colcur, rows, panic].
get_rows_cols_op(st, op, checks) ==
    IF op.op = "Cell"
    THEN LET a == u8_add(st.colcur, op.cp.colspan, checks)
         IN  [st EXCEPT !.colcur = a.v, !.panic = a.panic]
    ELSE LET r == u8_add(st.rows, 1, checks)
         IN  [cols |-> max(st.cols, st.colcur), colcur |-> 0,
              rows |-> r.v, panic |-> r.panic]

RECURSIVE get_rows_cols_loop(_, _, _, _)
get_rows_cols_loop(ops, i, st, checks) ==
    IF st.panic \/ i > Len(ops) THEN st
    ELSE get_rows_cols_loop(ops, i + 1, get_rows_cols_op(st, ops[i], checks), checks)

\* [panic, rows, cols]: panic is an overflowing u8 addition in a checked build
get_rows_cols(self, checks) ==
    LET st == get_rows_cols_loop(self.opcodes, 1,
                  [cols |-> 0, colcur |-> 0, rows |-> 0, panic |-> FALSE], checks)
        r  == u8_add(st.rows, 1, checks)
    IN  IF st.panic THEN [panic |-> TRUE, rows |-> 0, cols |-> 0]
        ELSE IF st.colcur > 0
        THEN [panic |-> r.panic, rows |-> r.v, cols |-> max(st.cols, st.colcur)]
        ELSE [panic |-> FALSE, rows |-> st.rows, cols |-> st.cols]

\* clear as it would be if it dropped the row and column templates too.
clear_with_templates(self) ==
    [self EXCEPT !.row = 0, !.column = 0, !.opcodes = <<>>,
                 !.row_defaults = BTreeMap_new, !.column_defaults = BTreeMap_new]

clear(self) == [self EXCEPT !.row = 0, !.column = 0, !.opcodes = <<>>]

full_clear(self) ==
    [clear(self) EXCEPT !.row_defaults = BTreeMap_new,
                        !.column_defaults = BTreeMap_new,
                        !.cell_defaults = CellProperties_default]

\* [panic, self]: the push precedes the addition, so a panic leaves the Row pushed
with_row(self, checks) ==
    LET r == u8_add(self.row, 1, checks)
    IN  [panic |-> r.panic,
         self  |-> IF r.panic
                   THEN [self EXCEPT !.opcodes = Append(self.opcodes, Row)]
                   ELSE [self EXCEPT !.opcodes = Append(self.opcodes, Row),
                                     !.row = r.v, !.column = 0]]

\* [panic, self]: the addition precedes the push, so a panic leaves self as it was
with_cell(self, properties, checks) ==
    LET c == u8_add(self.column, properties.colspan, checks)
    IN  [panic |-> c.panic,
         self  |-> IF c.panic THEN self
                   ELSE [self EXCEPT !.column = c.v,
                                     !.opcodes = Append(self.opcodes, Cell(properties))]]


\* --------------------------------------------------------------- impose --
\* A panic of impose is "overflow" (a checked u8 addition), "row_index" or
\* "col_index" (an index past the end of a per-row or per-column Vec).

\* impose as it would be without its early return.
impose_without_short_circuit(total_cols) == FALSE

impose_short_circuit(total_cols) == total_cols = 0

\* The Vec of f[i], .., f[j], built from its two halves.
RECURSIVE collect(_, _, _)
collect(f, i, j) ==
    IF i > j THEN <<>>
    ELSE IF i = j THEN <<f[i]>>
    ELSE collect(f, i, (i + j) \div 2) \o collect(f, (i + j) \div 2 + 1, j)

\* Vec of n copies of v
vec(n, v) == collect([i \in 1..n |-> v], 1, n)

\* The measurement pass, one opcode, as it would be if a row accumulated the
\* padded grouping of its cells as a column does.
measure_op_padded_rows(st, op, total_rows, total_cols, checks) ==
    IF op.op = "Cell"
    THEN LET cp == op.cp
             midget == spread(padded(cp.size, cp.padding), F(cp.colspan))
             inspan(i) == st.col < i /\ i <= st.col + cp.colspan
         IN  IF cp.colspan = 0 THEN st
             ELSE IF st.row >= total_rows THEN [st EXCEPT !.panic = "row_index"]
             ELSE IF st.col + cp.colspan > total_cols
                  THEN [st EXCEPT !.panic = "col_index"]
             ELSE [st EXCEPT
                     !.row_sizes[st.row + 1] =
                         join(st.row_sizes[st.row + 1], padded(cp.size, cp.padding)),
                     !.has_yexpand[st.row + 1] =
                         st.has_yexpand[st.row + 1]
                             \/ contains(cp.flags, "ExpandVertical"),
                     !.has_xexpand = collect([i \in 1..total_cols |->
                         st.has_xexpand[i]
                             \/ (inspan(i) /\ contains(cp.flags, "ExpandHorizontal"))],
                         1, total_cols),
                     !.col_sizes = collect([i \in 1..total_cols |->
                         IF inspan(i) THEN join(st.col_sizes[i], midget)
                                      ELSE st.col_sizes[i]], 1, total_cols),
                     !.col = st.col + cp.colspan]
    ELSE LET r == u8_add(st.row, 1, checks)
         IN  IF r.panic THEN [st EXCEPT !.panic = "overflow"]
             ELSE [st EXCEPT !.row = r.v, !.col = 0]

\* The measurement pass, one opcode: st = [row, col, col_sizes, row_sizes,
\* has_xexpand, has_yexpand, panic].  The inner loop over the cell's columns
\* indexes col, col + 1, ..: it panics at the first one past the end, else it
\* joins midget into each of them.
measure_op(st, op, total_rows, total_cols, checks) ==
    IF op.op = "Cell"
    THEN LET cp == op.cp
             midget == spread(padded(cp.size, cp.padding), F(cp.colspan))
             inspan(i) == st.col < i /\ i <= st.col + cp.colspan
         IN  IF cp.colspan = 0 THEN st
             ELSE IF st.row >= total_rows THEN [st EXCEPT !.panic = "row_index"]
             ELSE IF st.col + cp.colspan > total_cols
                  THEN [st EXCEPT !.panic = "col_index"]
             ELSE [st EXCEPT
                     !.row_sizes[st.row + 1] = join(st.row_sizes[st.row + 1], cp.size),
                     !.has_yexpand[st.row + 1] =
                         st.has_yexpand[st.row + 1]
                             \/ contains(cp.flags, "ExpandVertical"),
                     !.has_xexpand = collect([i \in 1..total_cols |->
                         st.has_xexpand[i]
                             \/ (inspan(i) /\ contains(cp.flags, "ExpandHorizontal"))],
                         1, total_cols),
                     !.col_sizes = collect([i \in 1..total_cols |->
                         IF inspan(i) THEN join(st.col_sizes[i], midget)
                                      ELSE st.col_sizes[i]], 1, total_cols),
                     !.col = st.col + cp.colspan]
    ELSE LET r == u8_add(st.row, 1, checks)
         IN  IF r.panic THEN [st EXCEPT !.panic = "overflow"]
             ELSE [st EXCEPT !.row = r.v, !.col = 0]

RECURSIVE measure_loop(_, _, _, _, _, _)
measure_loop(ops, i, st, total_rows, total_cols, checks) ==
    IF st.panic # "none" \/ i > Len(ops) THEN st
    ELSE measure_loop(ops, i + 1,
             measure_op(st, ops[i], total_rows, total_cols, checks),
             total_rows, total_cols, checks)

measure(ops, total_rows, total_cols, checks) ==
    measure_loop(ops, 1,
        [row |-> 0, col |-> 0,
         col_sizes |-> vec(total_cols, SizeGrouping_default),
         row_sizes |-> vec(total_rows, SizeGrouping_default),
         has_xexpand |-> vec(total_cols, FALSE),
         has_yexpand |-> vec(total_rows, FALSE),
         panic |-> "none"],
        total_rows, total_cols, checks)

\* xs[i] + .. + xs[j], 0.0 when the range is empty.  The code adds the terms
\* one by one to a running total; in exact arithmetic that is their sum, which
\* is taken here over the two halves of the range so that the depth of the
\* evaluation stays logarithmic in the 255 columns a row can have.
RECURSIVE sum(_, _, _)
sum(xs, i, j) ==
    IF i > j THEN F(0)
    ELSE IF i = j THEN xs[i]
    ELSE FAdd(sum(xs, i, (i + j) \div 2), sum(xs, (i + j) \div 2 + 1, j))

\* What remains of the extent once each line has its preferred size.
distribution_error(preferred, available) ==
    FSub(available, sum(preferred, 1, Len(preferred)))

\* The surplus branch as it would be if each expanding line took all of it.
relax_whole_error(preferred, has_expand, error) ==
    collect([i \in DOMAIN preferred |->
                IF has_expand[i] THEN FAdd(preferred[i], error) ELSE preferred[i]],
            1, Len(preferred))

\* The lines' preferred sizes after the surplus (error > 0) is shared.
relax(preferred, has_expand, error) ==
    LET expansions == Cardinality({i \in DOMAIN has_expand : has_expand[i]})
        amount == FDiv(error, F(expansions))
    IN  IF expansions > 0
        THEN collect([i \in DOMAIN preferred |->
                 IF has_expand[i] THEN FAdd(preferred[i], amount) ELSE preferred[i]],
                 1, Len(preferred))
        ELSE preferred

\* The deficit branch as it would be if it floored each line at its minimum.
tense_to_minimum(preferred, minimum, error) ==
    LET n == Len(preferred)
        slack == collect([i \in 1..n |-> FSub(preferred[i], minimum[i])], 1, n)
        total_slack == sum(slack, 1, n)
        rest == collect([i \in 1..n |->
                    FSub(slack[i], FMul(error, FDiv(slack[i], total_slack)))], 1, n)
    IN  collect([i \in 1..n |-> f32_max(FAdd(minimum[i], rest[i]), minimum[i])], 1, n)

\* The lines' preferred sizes after the deficit (error > 0 here, negated) is
\* spread over the lines' slack.
tense(preferred, minimum, error) ==
    LET n == Len(preferred)
        slack == collect([i \in 1..n |-> FSub(preferred[i], minimum[i])], 1, n)
        total_slack == sum(slack, 1, n)
        rest == collect([i \in 1..n |->
                    FSub(slack[i], FMul(error, FDiv(slack[i], total_slack)))], 1, n)
    IN  collect([i \in 1..n |-> f32_max(FAdd(minimum[i], rest[i]), F(0))], 1, n)

\* The distribution along one axis: the lines' resolved preferred sizes.
distribute(preferred, minimum, has_expand, available) ==
    LET error == distribution_error(preferred, available)
    IN  IF FGt(error, F(0)) THEN relax(preferred, has_expand, error)
        ELSE IF FLt(error, F(0)) THEN tense(preferred, minimum, FNeg(error))
        ELSE preferred

\* The advance of x as it would be if it used the fitted width.
next_x_by_fitted_width(x, width, bw) == FAdd(x, bw)

\* x after a cell of the given allotted width and fitted width
next_x(x, width, bw) == FAdd(x, width)

\* The placement pass, one opcode: st = [x, y, row, col, calls, panic]; idx is
\* the opcode's position, widths and heights are the resolved sizes.
place_op(st, op, idx, widths, heights, checks) ==
    IF st.row >= Len(heights) THEN [st EXCEPT !.panic = "row_index"]
    ELSE
    LET height == heights[st.row + 1]
    IN  IF op.op = "Cell"
        THEN LET cp == op.cp
                 width == sum(widths, st.col + 1, st.col + cp.colspan)
                 b == box_fit(cp.size, Size(width, height), cp)
                 call == [cell |-> idx, x |-> FAdd(st.x, b[1]),
                          y |-> FAdd(st.y, b[2]), w |-> b[3], h |-> b[4]]
             IN  IF cp.colspan = 0 THEN st
                 ELSE IF st.col + cp.colspan > Len(widths)
                      THEN [st EXCEPT !.panic = "col_index"]
                 ELSE [st EXCEPT
                         !.col = st.col + cp.colspan,
                         !.calls = IF cp.callback THEN Append(st.calls, call)
                                                  ELSE st.calls,
                         !.x = next_x(st.x, width, b[3])]
        ELSE LET r == u8_add(st.row, 1, checks)
             IN  IF r.panic THEN [st EXCEPT !.panic = "overflow"]
                 ELSE [st EXCEPT !.x = F(0), !.y = FAdd(st.y, height),
                                 !.row = r.v, !.col = 0]

RECURSIVE place_loop(_, _, _, _, _, _)
place_loop(ops, i, st, widths, heights, checks) ==
    IF st.panic # "none" \/ i > Len(ops) THEN st
    ELSE place_loop(ops, i + 1, place_op(st, ops[i], i, widths, heights, checks),
                    widths, heights, checks)

place(ops, widths, heights, checks) ==
    place_loop(ops, 1,
        [x |-> F(0), y |-> F(0), row |-> 0, col |-> 0, calls |-> <<>>,
         panic |-> "none"],
        widths, heights, checks)

\* The record of one impose call: how it ended, the callbacks it invoked in
\* order, and the values of its locals (empty where it did not get that far).
ImposeTrace(width, height, panic, shape, m, widths, heights, calls) ==
    [width |-> width, height |-> height, panic |-> panic,
     total_rows |-> shape.rows, total_cols |-> shape.cols,
     col_sizes |-> m.col_sizes, row_sizes |-> m.row_sizes,
     has_xexpand |-> m.has_xexpand, has_yexpand |-> m.has_yexpand,
     widths |-> widths, heights |-> heights, calls |-> calls]

NotMeasured ==
    [row_sizes |-> <<>>, has_yexpand |-> <<>>, has_xexpand |-> <<>>,
     col_sizes |-> <<>>]

impose(self, width, height, checks) ==
    LET shape == get_rows_cols(self, checks)
        m == measure(self.opcodes, shape.rows, shape.cols, checks)
        widths ==
            distribute(
                collect([i \in 1..shape.cols |-> m.col_sizes[i].preferred.width],
                        1, shape.cols),
                collect([i \in 1..shape.cols |-> m.col_sizes[i].minimum.width],
                        1, shape.cols),
                m.has_xexpand, width)
        heights ==
            distribute(
                collect([i \in 1..shape.rows |-> m.row_sizes[i].preferred.height],
                        1, shape.rows),
                collect([i \in 1..shape.rows |-> m.row_sizes[i].minimum.height],
                        1, shape.rows),
                m.has_yexpand, height)
        p == place(self.opcodes, widths, heights, checks)
    IN  IF shape.panic
        THEN ImposeTrace(width, height, "overflow", shape, NotMeasured, <<>>, <<>>, <<>>)
        ELSE IF impose_short_circuit(shape.cols)
        THEN ImposeTrace(width, height, "none", shape, NotMeasured, <<>>, <<>>, <<>>)
        ELSE IF m.panic # "none"
        THEN ImposeTrace(width, height, m.panic, shape, NotMeasured, <<>>, <<>>, <<>>)
        ELSE ImposeTrace(width, height, p.panic, shape, m, widths, heights, p.calls)

\* impose as it would be if it took each callback out of its cell to call it.
impose_taking_callbacks(self) ==
    [self EXCEPT !.opcodes =
        [i \in 1..Len(self.opcodes) |->
            IF self.opcodes[i].op = "Cell"
            THEN Cell([self.opcodes[i].cp EXCEPT !.callback = FALSE])
            ELSE self.opcodes[i]]]

\* impose as it would be if it rewound the insertion cursor.
impose_rewinding_cursor(self) == [self EXCEPT !.row = 0, !.column = 0]

\* The TableLayout after impose: no field of self is assigned.
impose_self(self) == self


\* ------------------------------------------------------- the environment --
\* The caller's inputs: the cells it builds with CellProperties::new() and
\* the builder methods, the extents it imposes, the templates it registers.

MaxOps == 3

Pad(top, left, bottom, right) == Rectangle(F(top), F(left), F(bottom), F(right))

Sz(w, h) == Size(F(w), F(h))

Kinds == {"plain", "grow", "wide", "ghost", "huge", "floor"}

Catalog(kind) ==
    CASE kind = "plain" ->
            preferred_size(callback(CellProperties_new), Sz(4, 4))
      [] kind = "grow" ->
            set_flags(minimum_size(preferred_size(callback(CellProperties_new),
                                                  Sz(2, 2)), Sz(1, 1)),
                      {"ExpandHorizontal", "ExpandVertical",
                       "AnchorVerticalCenter", "Uniform"})
      [] kind = "wide" ->
            padding(set_flags(colspan(preferred_size(callback(CellProperties_new),
                                                     Sz(6, 2)), 2),
                              {"FillHorizontal", "AnchorBottom", "Uniform"}),
                    Pad(1, 1, 0, 2))
      [] kind = "ghost" ->
            colspan(preferred_size(callback(CellProperties_new), Sz(8, 8)), 0)
      [] kind = "floor" ->
            minimum_size(callback(CellProperties_new), Sz(3, 2))
      [] OTHER ->
            colspan(CellProperties_new, 255)

\* <<width, height>> passed to impose
Dims == {<<4, 3>>, <<10, 9>>}

\* The templates the caller registers as defaults, and where.
CellTemplates == {"grow"}

RowTemplates == {"wide"}

ColumnTemplates == {"plain"}

DefaultRows == {0}

DefaultColumns == {1}

VARIABLES
    layout,           \* the TableLayout
    overflow_checks,  \* whether the build checks integer overflow
    panicked,         \* a panic has unwound the caller
    built,            \* the opcodes appended since the layout was last cleared
    call,             \* the latest call: "new", "clear", "full_clear", "impose",
                      \* or "build" for an append or an edit of the defaults
    last              \* <<the record of the impose call>> if the latest call
                      \* was impose, else <<>>

vars == <<layout, overflow_checks, panicked, built, call, last>>

Init ==
    /\ layout = TableLayout_new
    /\ overflow_checks \in BOOLEAN
    /\ panicked = FALSE
    /\ built = <<>>
    /\ call = "new"
    /\ last = <<>>

\* layout.with_cell(properties)
Append_cell(properties) ==
    LET r == with_cell(layout, properties, overflow_checks)
    IN  /\ ~panicked
        /\ Len(layout.opcodes) < MaxOps
        /\ layout' = r.self
        /\ panicked' = r.panic
        /\ built' = IF r.panic THEN built ELSE Append(built, Cell(properties))
        /\ call' = "build"
        /\ last' = <<>>
        /\ UNCHANGED overflow_checks

\* layout.with_cell(CellProperties::new()...)
WithCell == \E kind \in Kinds : Append_cell(Catalog(kind))

\* layout.with_cell(CellProperties::new().colspan(255))
WithHugeCell == Append_cell(Catalog("huge"))

\* layout.with_cell(CellProperties::with_defaults(&layout).callback(..))
WithDefaultsCell == Append_cell(callback(with_defaults(layout)))

\* layout.with_row()
WithRow ==
    LET r == with_row(layout, overflow_checks)
    IN  /\ ~panicked
        /\ Len(layout.opcodes) < MaxOps
        /\ layout' = r.self
        /\ panicked' = r.panic
        /\ built' = Append(built, Row)
        /\ call' = "build"
        /\ last' = <<>>
        /\ UNCHANGED overflow_checks

\* layout.clear()
Clear ==
    /\ ~panicked
    /\ layout' = clear(layout)
    /\ built' = <<>>
    /\ call' = "clear"
    /\ last' = <<>>
    /\ UNCHANGED <<overflow_checks, panicked>>

\* layout.full_clear()
FullClear ==
    /\ ~panicked
    /\ layout' = full_clear(layout)
    /\ built' = <<>>
    /\ call' = "full_clear"
    /\ last' = <<>>
    /\ UNCHANGED <<overflow_checks, panicked>>

\* layout.cell_defaults = ..
SetCellDefaults ==
    \E t \in CellTemplates :
        /\ ~panicked
        /\ layout' = [layout EXCEPT !.cell_defaults = Catalog(t)]
        /\ call' = "build"
        /\ last' = <<>>
        /\ UNCHANGED <<overflow_checks, panicked, built>>

\* layout.row_defaults.insert(r, ..)
SetRowDefault ==
    \E r \in DefaultRows, t \in RowTemplates :
        /\ ~panicked
        /\ layout' = [layout EXCEPT !.row_defaults = insert(@, r, Catalog(t))]
        /\ call' = "build"
        /\ last' = <<>>
        /\ UNCHANGED <<overflow_checks, panicked, built>>

\* layout.column_defaults.insert(c, ..)
SetColumnDefault ==
    \E c \in DefaultColumns, t \in ColumnTemplates :
        /\ ~panicked
        /\ layout' = [layout EXCEPT !.column_defaults = insert(@, c, Catalog(t))]
        /\ call' = "build"
        /\ last' = <<>>
        /\ UNCHANGED <<overflow_checks, panicked, built>>

\* layout.impose(width, height)
Impose ==
    \E d \in Dims :
        LET t == impose(layout, F(d[1]), F(d[2]), overflow_checks)
        IN  /\ ~panicked
            /\ layout' = impose_self(layout)
            /\ panicked' = (t.panic # "none")
            /\ call' = "impose"
            /\ last' = <<t>>
            /\ UNCHANGED <<overflow_checks, built>>

\* The caller lays cells out: it builds them itself and imposes extents.
Next ==
    \/ WithCell
    \/ WithRow
    \/ Clear
    \/ FullClear
    \/ Impose

Spec == Init /\ [][Next]_vars

\* The caller works with default templates: it registers them and builds its
\* cells from them.
NextDefaults ==
    \/ SetCellDefaults
    \/ SetRowDefault
    \/ SetColumnDefault
    \/ WithDefaultsCell
    \/ WithHugeCell
    \/ WithRow
    \/ Clear
    \/ FullClear
    \/ Impose

SpecDefaults == Init /\ [][NextDefaults]_vars

\* The caller fits one cell: it builds a one-cell layout and imposes extents.
\* A cell that expands is allotted the whole extent.
FitFlags ==
    {"ExpandHorizontal", "ExpandVertical", "FillHorizontal", "FillVertical",
     "AnchorRight", "AnchorHorizontalCenter", "AnchorBottom",
     "AnchorVerticalCenter"}

FitPaddings == {Pad(0, 0, 0, 0), Pad(1, 1, 0, 2)}

FitMaximums == {Sz(3, 3), Size(F32_MAX, F32_MAX)}

FitCells ==
    {padding(set_flags(maximum_size(preferred_size(callback(CellProperties_new),
                                                   Sz(2, 2)), m),
                       fs), pad) :
        fs \in SUBSET FitFlags, pad \in FitPaddings, m \in FitMaximums}

InitFit ==
    /\ overflow_checks \in BOOLEAN
    /\ \E cp \in FitCells :
           /\ layout = with_cell(TableLayout_new, cp, overflow_checks).self
           /\ built = <<Cell(cp)>>
    /\ panicked = FALSE
    /\ call = "build"
    /\ last = <<>>

NextFit == Impose

SpecFit == InitFit /\ [][NextFit]_vars


\* ----------------------------------------------------------- the claims --
\* Vocabulary: the impose call a state records, and the grid read off the
\* opcode sequence.

Imposed == last # <<>>

IsCell(ops, i) == ops[i].op = "Cell"

\* The positions of the cells whose callback impose is to invoke, in order.
CallbackCells(ops) ==
    SelectSeq([i \in 1..Len(ops) |-> i],
              LAMBDA i : IsCell(ops, i) /\ ops[i].cp.colspan >= 1
                         /\ ops[i].cp.callback)

\* The positions of the cells whose callbacks an impose call invoked, in order.
CalledCells(calls) == [n \in 1..Len(calls) |-> calls[n].cell]

\* The number of Row opcodes before position i.
RowOf(ops, i) == Cardinality({j \in 1..(i - 1) : ops[j].op = "Row"})

\* The positions of the cells that precede position i in its row.
RowMates(ops, i) ==
    {j \in 1..(i - 1) : IsCell(ops, j) /\ RowOf(ops, j) = RowOf(ops, i)}

RECURSIVE SpanSum(_, _)
SpanSum(ops, js) ==
    IF js = {} THEN 0
    ELSE LET j == CHOOSE x \in js : TRUE
         IN  ops[j].cp.colspan + SpanSum(ops, js \ {j})

\* The number of columns before the first column of the cell at position i.
ColumnOf(ops, i) == SpanSum(ops, RowMates(ops, i))

\* C1: in an impose call on a program with at least one column, the callbacks
\* invoked are exactly those of the cells with colspan >= 1 that have one, each
\* once, in the order of the opcode sequence (so none of a colspan-0 cell).
C1_EachCallbackOnceInOrder ==
    (Imposed /\ last[1].total_cols >= 1)
        => CalledCells(last[1].calls) = CallbackCells(layout.opcodes)

\* C2: when get_rows_cols yields cols = 0, impose returns and has invoked no
\* callback, whatever the extents.
C2_NoColumnsNoCallbacks ==
    Imposed =>
        LET shape == get_rows_cols(layout, overflow_checks)
        IN  (~shape.panic /\ shape.cols = 0)
                => last[1].panic = "none" /\ last[1].calls = <<>>

\* C2's case: impose has run on a program of a colspan-0 cell with a callback
\* and a Row, which has no column.
C2_Witness ==
    /\ Imposed
    /\ last[1].total_cols = 0
    /\ last[1].panic = "none"
    /\ \E i \in 1..Len(layout.opcodes) :
           IsCell(layout.opcodes, i) /\ layout.opcodes[i].cp.callback
    /\ \E i \in 1..Len(layout.opcodes) : layout.opcodes[i].op = "Row"

\* No row of the program spans more columns than a u8 counts.
SpansFit(ops) ==
    \A i \in 1..Len(ops) :
        IsCell(ops, i) => ColumnOf(ops, i) + ops[i].cp.colspan < U8

\* C3: impose never fails on a structurally valid program: every index its
\* passes use is in range and it runs to completion (stated here for the
\* programs whose rows stay within the u8 range of the column counter).
C3_ImposeNeverFails ==
    (Imposed /\ SpansFit(layout.opcodes)) => last[1].panic = "none"


\* The program rebuilt on a new TableLayout from the opcodes appended.
RECURSIVE Replay(_, _, _)
Replay(ops, i, checks) ==
    IF i = 0 THEN TableLayout_new
    ELSE IF ops[i].op = "Cell"
    THEN with_cell(Replay(ops, i - 1, checks), ops[i].cp, checks).self
    ELSE with_row(Replay(ops, i - 1, checks), checks).self

\* C4: the callbacks of an impose call (which cell, x, y, width, height) are
\* those of the same call on the same program freshly built, and those of the
\* impose call just before it when that one had the same extents.
C4_CallbacksDependOnProgramAndExtents ==
    [][call' = "impose" =>
        LET t == last'[1]
            fresh == Replay(built, Len(built), overflow_checks)
        IN  /\ t.calls = impose(fresh, t.width, t.height, overflow_checks).calls
            /\ (call = "impose" /\ last[1].width = t.width
                                /\ last[1].height = t.height)
                    => t.calls = last[1].calls]_vars

\* C4's case: impose has run to completion and invoked several callbacks.
C4_Witness ==
    /\ Imposed
    /\ last[1].panic = "none"
    /\ Len(last[1].calls) >= 2
    /\ \E n \in 1..Len(last[1].calls) : last[1].calls[n].x # F(0)

\* C5: impose leaves the opcodes, the cursor and the three kinds of default
\* template as they were.
C5_ImposeLeavesLayoutUnchanged ==
    [][call' = "impose" =>
        /\ layout'.opcodes = layout.opcodes
        /\ layout'.row = layout.row
        /\ layout'.column = layout.column
        /\ layout'.cell_defaults = layout.cell_defaults
        /\ layout'.row_defaults = layout.row_defaults
        /\ layout'.column_defaults = layout.column_defaults]_vars

\* C5's case: impose has invoked a callback of a layout whose cursor is off
\* the origin and which has templates of all three kinds.
C5_Witness ==
    /\ call = "impose"
    /\ last[1].calls # <<>>
    /\ layout.column > 0
    /\ layout.row > 0
    /\ layout.cell_defaults # CellProperties_default
    /\ DOMAIN layout.row_defaults # {}
    /\ DOMAIN layout.column_defaults # {}

\* The template with_defaults is to copy: the column's, else the row's, else
\* the global one.
ChosenTemplate ==
    IF layout.column \in DOMAIN layout.column_defaults
    THEN layout.column_defaults[layout.column]
    ELSE IF layout.row \in DOMAIN layout.row_defaults
    THEN layout.row_defaults[layout.row]
    ELSE layout.cell_defaults

\* C6: with_defaults copies the size grouping, flags, padding and colspan of
\* the template chosen by column, then row, then global, and has no callback.
C6_WithDefaultsLookupOrder ==
    LET d == with_defaults(layout)
    IN  /\ d.size = ChosenTemplate.size
        /\ d.flags = ChosenTemplate.flags
        /\ d.padding = ChosenTemplate.padding
        /\ d.colspan = ChosenTemplate.colspan
        /\ ~d.callback

\* C6's case: the cursor is on a column and a row that both have a template,
\* the templates differ, and the column's has a callback.
C6_Witness ==
    /\ layout.column \in DOMAIN layout.column_defaults
    /\ layout.row \in DOMAIN layout.row_defaults
    /\ layout.column_defaults[layout.column].callback
    /\ layout.column_defaults[layout.column].size
           # layout.row_defaults[layout.row].size
    /\ layout.cell_defaults # CellProperties_default
    /\ layout.opcodes # <<>>

\* C7: clear empties the opcodes and zeroes the cursor and keeps the three
\* kinds of template; full_clear leaves the layout as new.
C7_ClearKeepsDefaultsFullClearResets ==
    [][/\ call' = "clear" =>
            /\ layout'.opcodes = <<>>
            /\ layout'.row = 0 /\ layout'.column = 0
            /\ layout'.cell_defaults = layout.cell_defaults
            /\ layout'.row_defaults = layout.row_defaults
            /\ layout'.column_defaults = layout.column_defaults
       /\ call' = "full_clear" =>
            /\ layout'.opcodes = <<>>
            /\ layout'.row = 0 /\ layout'.column = 0
            /\ layout'.cell_defaults =
                   CellProperties(SizeGrouping_default, {}, 1,
                                  Rectangle(F(0), F(0), F(0), F(0)), FALSE)
            /\ DOMAIN layout'.row_defaults = {}
            /\ DOMAIN layout'.column_defaults = {}]_vars

\* C7's case: clear has run on a layout with templates of all three kinds.
C7_Witness ==
    /\ call = "clear"
    /\ layout.cell_defaults # CellProperties_default
    /\ DOMAIN layout.row_defaults # {}
    /\ DOMAIN layout.column_defaults # {}

\* The positions of the cells after the last Row opcode.
LastRowCells(ops) ==
    {j \in 1..Len(ops) : IsCell(ops, j) /\ RowOf(ops, j) = RowOf(ops, Len(ops) + 1)}

\* C8: the cursor's row is the number of Row opcodes and its column the sum of
\* the colspans of the cells after the last Row.
C8_CursorMatchesOpcodes ==
    /\ layout.row = RowOf(layout.opcodes, Len(layout.opcodes) + 1)
    /\ layout.column = SpanSum(layout.opcodes, LastRowCells(layout.opcodes))

\* The area the placement pass allots to the cell at position i, from the
\* resolved sizes of the impose call t.
OriginX(t, ops, i) == sum(t.widths, 1, ColumnOf(ops, i))

OriginY(t, ops, i) == sum(t.heights, 1, RowOf(ops, i))

AllottedWidth(t, ops, i) ==
    sum(t.widths, ColumnOf(ops, i) + 1, ColumnOf(ops, i) + ops[i].cp.colspan)

AllottedHeight(t, ops, i) == t.heights[RowOf(ops, i) + 1]

Allotted(t, ops, i) == Size(AllottedWidth(t, ops, i), AllottedHeight(t, ops, i))

\* C9: each callback receives the origin of its cell's allotted area (the
\* widths of the columns before it, the heights of the rows above it) plus the
\* box fitted into the area of the columns it crosses and of its row.
C9_PlacementGeometry ==
    Imposed =>
        \A n \in 1..Len(last[1].calls) :
            LET t == last[1]
                c == t.calls[n]
                cp == layout.opcodes[c.cell].cp
                b == box_fit(cp.size, Allotted(t, layout.opcodes, c.cell), cp)
            IN  /\ c.x = FAdd(OriginX(t, layout.opcodes, c.cell), b[1])
                /\ c.y = FAdd(OriginY(t, layout.opcodes, c.cell), b[2])
                /\ c.w = b[3]
                /\ c.h = b[4]

\* C9's case: a callback of a cell that follows, in its row, a cell fitted
\* narrower than its allotted width.
C9_Witness ==
    /\ Imposed
    /\ last[1].panic = "none"
    /\ \E n \in 2..Len(last[1].calls) :
           LET t == last[1]
               i == t.calls[n - 1].cell
               j == t.calls[n].cell
           IN  /\ i \in RowMates(layout.opcodes, j)
               /\ t.calls[n - 1].w # AllottedWidth(t, layout.opcodes, i)
               /\ ~IsZero(OriginX(t, layout.opcodes, j))

\* C10: box_fit centres a cell with AnchorVerticalCenter and without
\* AnchorBottom vertically in its area, and puts a cell with neither flag at
\* padding.top.
C10_VerticalCenter ==
    Imposed =>
        \A n \in 1..Len(last[1].calls) :
            LET i == last[1].calls[n].cell
                cp == layout.opcodes[i].cp
                area == Allotted(last[1], layout.opcodes, i)
                b == box_fit(cp.size, area, cp)
            IN  /\ (contains(cp.flags, "AnchorVerticalCenter")
                        /\ ~contains(cp.flags, "AnchorBottom"))
                    => b[2] = FSub(FDiv(area.height, F(2)), FDiv(b[4], F(2)))
                /\ (~contains(cp.flags, "AnchorVerticalCenter")
                        /\ ~contains(cp.flags, "AnchorBottom"))
                    => b[2] = cp.padding.top


\* C11: in one impose call, every two cells with the Uniform flag whose
\* callbacks are invoked are delivered the same width and the same height.
C11_UniformSameSize ==
    Imposed =>
        \A m, n \in 1..Len(last[1].calls) :
            LET a == last[1].calls[m]
                b == last[1].calls[n]
            IN  (contains(layout.opcodes[a.cell].cp.flags, "Uniform")
                    /\ contains(layout.opcodes[b.cell].cp.flags, "Uniform"))
                => a.w = b.w /\ a.h = b.h


\* The two axes of an impose call t that got as far as the distribution: the
\* lines' accumulated preferred and minimum sizes, their expansion flags, the
\* extent passed in and the resolved sizes.
Axes(t) ==
    IF t.widths = <<>> THEN {}
    ELSE {[preferred |-> collect([i \in 1..t.total_cols |->
                                t.col_sizes[i].preferred.width], 1, t.total_cols),
           minimum   |-> collect([i \in 1..t.total_cols |->
                                t.col_sizes[i].minimum.width], 1, t.total_cols),
           expand    |-> t.has_xexpand,
           available |-> t.width,
           resolved  |-> t.widths],
          [preferred |-> collect([i \in 1..t.total_rows |->
                                t.row_sizes[i].preferred.height], 1, t.total_rows),
           minimum   |-> collect([i \in 1..t.total_rows |->
                                t.row_sizes[i].minimum.height], 1, t.total_rows),
           expand    |-> t.has_yexpand,
           available |-> t.height,
           resolved  |-> t.heights]}

Lines(ax) == 1..Len(ax.resolved)

Error(ax) == FSub(ax.available, sum(ax.preferred, 1, Len(ax.preferred)))

Expansions(ax) == Cardinality({i \in Lines(ax) : ax.expand[i]})

Slack(ax, i) == FSub(ax.preferred[i], ax.minimum[i])

TotalSlack(ax) ==
    sum(collect([i \in Lines(ax) |-> Slack(ax, i)], 1, Len(ax.resolved)),
        1, Len(ax.resolved))

\* C12: on each axis, a surplus is shared equally among the expanding lines
\* and leaves the others unchanged; no surplus to share or no error leaves
\* every line unchanged; a deficit d with total slack > 0 makes each line
\* max(0, preferred - d * slack / total slack).
C12_DistributionFormula ==
    Imposed =>
        \A ax \in Axes(last[1]) :
            LET error == Error(ax)
                n == Expansions(ax)
                total_slack == TotalSlack(ax)
            IN  \A i \in Lines(ax) :
                /\ (FGt(error, F(0)) /\ n > 0 /\ ax.expand[i])
                    => ax.resolved[i] = FAdd(ax.preferred[i], FDiv(error, F(n)))
                /\ (FGt(error, F(0)) /\ n > 0 /\ ~ax.expand[i])
                    => ax.resolved[i] = ax.preferred[i]
                /\ ((FGt(error, F(0)) /\ n = 0) \/ IsZero(error))
                    => ax.resolved[i] = ax.preferred[i]
                /\ (FLt(error, F(0)) /\ FGt(total_slack, F(0)))
                    => /\ ax.resolved[i] =
                            f32_max(F(0),
                                FSub(ax.preferred[i],
                                     FDiv(FMul(FNeg(error), Slack(ax, i)),
                                          total_slack)))
                       /\ IsZero(Slack(ax, i)) => ax.resolved[i] = ax.preferred[i]

\* C12's case: an axis in deficit, with positive total slack, on which a line
\* is resolved below its minimum but not below 0.
C12_Witness ==
    /\ Imposed
    /\ \E ax \in Axes(last[1]) : \E i \in Lines(ax) :
           /\ FLt(Error(ax), F(0))
           /\ FGt(TotalSlack(ax), F(0))
           /\ FLt(ax.resolved[i], ax.minimum[i])
           /\ FGt(ax.resolved[i], F(0))


\* The axis has a surplus and a line to take it, or a deficit within its slack.
Solvable(ax) ==
    \/ FGt(Error(ax), F(0)) /\ Expansions(ax) > 0
    \/ FLt(Error(ax), F(0)) /\ ~FGt(FNeg(Error(ax)), TotalSlack(ax))

Total(ax) == sum(ax.resolved, 1, Len(ax.resolved))

\* C13 as stated: on a solvable axis the resolved sizes total the extent, and
\* in the deficit case no line is resolved below its accumulated minimum.
C13_TotalEqualsExtent ==
    Imposed =>
        \A ax \in Axes(last[1]) :
            Solvable(ax) =>
                /\ Total(ax) = ax.available
                /\ FLt(Error(ax), F(0)) =>
                       \A i \in Lines(ax) : ~FLt(ax.resolved[i], ax.minimum[i])

\* C13, amended: on a solvable axis the resolved sizes total the extent, and
\* in the deficit case no line whose accumulated minimum is at most its
\* accumulated preferred size is resolved below that minimum.
C13_TotalEqualsExtentOrdered ==
    Imposed =>
        \A ax \in Axes(last[1]) :
            Solvable(ax) =>
                /\ Total(ax) = ax.available
                /\ FLt(Error(ax), F(0)) =>
                       \A i \in Lines(ax) :
                           ~FLt(ax.preferred[i], ax.minimum[i])
                               => ~FLt(ax.resolved[i], ax.minimum[i])

\* C13's case: an axis with a deficit within its slack on which a line with a
\* positive minimum has shrunk, next to a line whose minimum exceeds its
\* preferred size.
C13_Witness ==
    /\ Imposed
    /\ \E ax \in Axes(last[1]) :
           /\ FLt(Error(ax), F(0))
           /\ Solvable(ax)
           /\ \E i \in Lines(ax) :
                  /\ FGt(ax.minimum[i], F(0))
                  /\ ~FLt(ax.preferred[i], ax.minimum[i])
                  /\ FLt(ax.resolved[i], ax.preferred[i])
           /\ \E i \in Lines(ax) : FLt(ax.preferred[i], ax.minimum[i])


\* What box_fit returned for the n-th callback of the impose call t: the
\* callback's arguments less the origin of the cell's area.
Fitted(t, ops, n) ==
    LET c == t.calls[n]
    IN  <<FSub(c.x, OriginX(t, ops, c.cell)), FSub(c.y, OriginY(t, ops, c.cell)),
          c.w, c.h>>

\* b = <<x, y, w, h>> is what C14's formula gives for prop in area.
FitFormula(prop, area, b) ==
    LET padW == FAdd(prop.padding.left, prop.padding.right)
        padH == FAdd(prop.padding.top, prop.padding.bottom)
    IN  /\ b[3] = IF contains(prop.flags, "FillHorizontal")
                  THEN f32_min(prop.size.maximum.width, FSub(area.width, padW))
                  ELSE f32_min(prop.size.preferred.width, FSub(area.width, padW))
        /\ b[4] = IF contains(prop.flags, "FillVertical")
                  THEN f32_min(prop.size.maximum.height, FSub(area.height, padH))
                  ELSE f32_min(prop.size.preferred.height, FSub(area.height, padH))
        /\ b[1] = IF contains(prop.flags, "AnchorRight")
                  THEN FSub(FSub(area.width, prop.padding.right), b[3])
                  ELSE IF contains(prop.flags, "AnchorHorizontalCenter")
                  THEN FSub(FDiv(area.width, F(2)), FDiv(b[3], F(2)))
                  ELSE prop.padding.left
        /\ b[2] = IF contains(prop.flags, "AnchorBottom")
                  THEN FSub(FSub(area.height, prop.padding.bottom), b[4])
                  ELSE IF contains(prop.flags, "AnchorHorizontalCenter")
                  THEN FSub(FDiv(area.height, F(2)), FDiv(b[4], F(2)))
                  ELSE prop.padding.top

\* prop fills on both axes and its maximum is at least the padded interior.
FillsInterior(prop, area) ==
    /\ contains(prop.flags, "FillHorizontal")
    /\ contains(prop.flags, "FillVertical")
    /\ ~FLt(prop.size.maximum.width,
            FSub(area.width, FAdd(prop.padding.left, prop.padding.right)))
    /\ ~FLt(prop.size.maximum.height,
            FSub(area.height, FAdd(prop.padding.top, prop.padding.bottom)))

\* b is exactly the padded interior of area.
IsInterior(prop, area, b) ==
    b = <<prop.padding.left, prop.padding.top,
          FSub(area.width, FAdd(prop.padding.left, prop.padding.right)),
          FSub(area.height, FAdd(prop.padding.top, prop.padding.bottom))>>

\* The formula of C14 alone: every callback gets what the formula gives.
BoxFitFollowsFormula ==
    Imposed =>
        \A n \in 1..Len(last[1].calls) :
            LET i == last[1].calls[n].cell
            IN  FitFormula(layout.opcodes[i].cp, Allotted(last[1], layout.opcodes, i),
                           Fitted(last[1], layout.opcodes, n))

\* C14: box_fit returns what the formula gives (w and h by the fill flags, x
\* and y by the anchor flags, y's centre by the horizontal-centre flag), and a
\* cell that fills on both axes with maximum at least the padded interior gets
\* exactly the padded interior.
C14_BoxFit ==
    Imposed =>
        \A n \in 1..Len(last[1].calls) :
            LET i == last[1].calls[n].cell
                prop == layout.opcodes[i].cp
                area == Allotted(last[1], layout.opcodes, i)
                b == Fitted(last[1], layout.opcodes, n)
            IN  /\ FitFormula(prop, area, b)
                /\ FillsInterior(prop, area) => IsInterior(prop, area, b)


\* The impose call t completed its measurement pass.
Measured(t) == t.col_sizes # <<>>

\* The cells with colspan >= 1 that cross column c (counted from 1), and those
\* in row r (counted from 1).
Crossing(ops, c) ==
    {i \in 1..Len(ops) :
        /\ IsCell(ops, i)
        /\ ops[i].cp.colspan >= 1
        /\ ColumnOf(ops, i) < c
        /\ c <= ColumnOf(ops, i) + ops[i].cp.colspan}

InRow(ops, r) ==
    {i \in 1..Len(ops) :
        IsCell(ops, i) /\ ops[i].cp.colspan >= 1 /\ RowOf(ops, i) = r - 1}

\* The greatest and the least of a non-empty set of numbers.
Greatest(S) == CHOOSE x \in S : \A y \in S : ~FLt(x, y)

Least(S) == CHOOSE x \in S : \A y \in S : ~FGt(x, y)

\* The merge of a set of groupings: minimum and preferred by maximum, starting
\* from 0; maximum by minimum, starting from unbounded.
Merge(gs) ==
    SizeGrouping(
        Size(Greatest({F(0)} \cup {g.minimum.width : g \in gs}),
             Greatest({F(0)} \cup {g.minimum.height : g \in gs})),
        Size(Least({F32_MAX} \cup {g.maximum.width : g \in gs}),
             Least({F32_MAX} \cup {g.maximum.height : g \in gs})),
        Size(Greatest({F(0)} \cup {g.preferred.width : g \in gs}),
             Greatest({F(0)} \cup {g.preferred.height : g \in gs})))

\* The grouping of the cell prop with its padding added on both axes, then
\* divided by its colspan on both axes.
PaddedDivided(prop) ==
    LET g == prop.size
        padW == FAdd(prop.padding.left, prop.padding.right)
        padH == FAdd(prop.padding.top, prop.padding.bottom)
        n == F(prop.colspan)
        part(sz) == Size(FDiv(FAdd(sz.width, padW), n), FDiv(FAdd(sz.height, padH), n))
    IN  SizeGrouping(part(g.minimum), part(g.maximum), part(g.preferred))

\* C15: after the measurement pass, a column's grouping is the merge of the
\* padded-then-divided groupings of the cells with colspan >= 1 crossing it, a
\* row's grouping is the merge of the unpadded, undivided groupings of the
\* cells with colspan >= 1 in it, a column expands exactly when a cell crossing
\* it has ExpandHorizontal, a row exactly when a cell in it has ExpandVertical;
\* colspan-0 cells contribute nothing and do not advance the column cursor.
C15_MeasurementPass ==
    (Imposed /\ Measured(last[1])) =>
        LET t == last[1]
            ops == layout.opcodes
        IN  /\ \A c \in 1..Len(t.col_sizes) :
                  /\ t.col_sizes[c]
                         = Merge({PaddedDivided(ops[i].cp) : i \in Crossing(ops, c)})
                  /\ t.has_xexpand[c]
                         = (\E i \in Crossing(ops, c) :
                                contains(ops[i].cp.flags, "ExpandHorizontal"))
            /\ \A r \in 1..Len(t.row_sizes) :
                  /\ t.row_sizes[r] = Merge({ops[i].cp.size : i \in InRow(ops, r)})
                  /\ t.has_yexpand[r]
                         = (\E i \in InRow(ops, r) :
                                contains(ops[i].cp.flags, "ExpandVertical"))

\* A measured program in which a padded cell spanning two columns shares its
\* first column with a cell of another row.
C15_Witness ==
    /\ Imposed
    /\ Measured(last[1])
    /\ \E i, j \in 1..Len(layout.opcodes) :
           /\ IsCell(layout.opcodes, i) /\ IsCell(layout.opcodes, j)
           /\ layout.opcodes[i].cp.colspan = 2
           /\ ~IsZero(layout.opcodes[i].cp.padding.top)
           /\ layout.opcodes[j].cp.colspan = 1
           /\ RowOf(layout.opcodes, j) # RowOf(layout.opcodes, i)
           /\ ColumnOf(layout.opcodes, j) = ColumnOf(layout.opcodes, i)


\* Neither axis of the impose call t is in deficit.
NoDeficit(t) == \A ax \in Axes(t) : ~FLt(Error(ax), F(0))

\* No side of the padding is negative.
NonNegative(pad) ==
    /\ ~FLt(pad.top, F(0)) /\ ~FLt(pad.left, F(0))
    /\ ~FLt(pad.bottom, F(0)) /\ ~FLt(pad.right, F(0))

\* C16: when neither axis is in deficit, every cell with colspan >= 1,
\* non-negative padding and neither fill flag is delivered exactly its own
\* preferred width and height, whatever its padding, anchor and expand flags.
C16_PreferredSizeDelivered ==
    (Imposed /\ Measured(last[1]) /\ NoDeficit(last[1])) =>
        \A n \in 1..Len(last[1].calls) :
            LET c == last[1].calls[n]
                prop == layout.opcodes[c.cell].cp
            IN  (/\ prop.colspan >= 1
                 /\ NonNegative(prop.padding)
                 /\ ~contains(prop.flags, "FillHorizontal")
                 /\ ~contains(prop.flags, "FillVertical"))
                    => c.w = prop.size.preferred.width
                       /\ c.h = prop.size.preferred.height

====
